---- MODULE Spec2Model ----
(***************************************************************************)
(* A model of the BER decoder of package asn1 (src/asn1/decode.go).        *)
(*                                                                         *)
(* The state is one Decoder over a bytes.Reader (as the tests build it in  *)
(* withDecoder, src/unnamed/part_000:31-37), the target of the last call   *)
(* and what the last call returned.  The operations are the methods the    *)
(* tests call: Decode, decodeType and decodeLength.  The recursive decoder *)
(* is a set of RECURSIVE operators that follow the code statement by       *)
(* statement; each returns the reader it leaves in dec.r, the target value *)
(* and the error.                                                          *)
(*                                                                         *)
(* Octets are the integers 0..255.  A Go int / int64 is modelled as its    *)
(* two's-complement big-endian octets (a tuple of IntBytes or 8 octets),   *)
(* so that `x<<8 | b` and `x<<7 | b` wrap exactly as the machine word does. *)
(* Slices are tuples; a nil slice and an empty slice are both << >>.       *)
(* dec.buf is scratch space that is always written before it is read, so   *)
(* only its capacity (BufLen) is modelled.                                 *)
(***************************************************************************)
EXTENDS Integers, Sequences, FiniteSets, TLC

VARIABLES
    r,       \* dec.r (decode.go:11): the reader the decoder reads from
    implicit, \* dec.Implicit: tag overrides are implicit unless they say explicit
    op,      \* the method called last: "NewDecoder", "Decode", "decodeType",
             \* "decodeLength", "DecodeWithOptions"
    options, \* the option string of the last DecodeWithOptions
    start,   \* the number of octets of r that were read when it was called
    ttype,   \* the type of the target of the last Decode (decode.go:24)
    before,  \* the value of that target when Decode was called
    out,     \* the value of that target now
    err,     \* the error the last method returned
    ret,     \* the other results of the last decodeType or decodeLength
    calls    \* the number of methods called on the decoder

vars == <<r, implicit, op, options, start, ttype, before, out, err, ret, calls>>

---------------------------------------------------------------------------
(* Errors: the values of the Go `error` results, by kind.                  *)

ErrNil == "nil"
ErrEOF == "EOF"
ErrUnexpectedEOF == "ErrUnexpectedEOF"
EOC == "End-Of-Content"
SyntaxError == "SyntaxError"
StructuralError == "StructuralError"
\* a run-time panic (slice bounds out of range, makeslice: len out of range)
Panic == "panic"

---------------------------------------------------------------------------
(* Program constants.                                                      *)

\* buf: make([]byte, 10)
BufLen == 10
\* width in octets of Go's int (length and tag), as on the 64-bit platforms
IntBytes == 8
\* width in octets of int64, the accumulator of decodeInteger
Int64Bytes == 8

ClassUniversal == 0
ClassApplication == 1
ClassContext == 2
ClassPrivate == 3
TagBoolean == 1
TagInteger == 2
TagOctetString == 4
TagEnumerated == 10
TagSequence == 16

---------------------------------------------------------------------------
(* Machine integers as big-endian two's-complement octet tuples.           *)

\* the zero of an n-octet integer
WordZero(n) == [k \in 1..n |-> 0]

\* x<<8 | b  (equally x<<8 + b: the low octet of x<<8 is zero), wrapping
WordShl8Or(w, b) == Tail(w) \o <<b>>

\* x<<7 | d for a d below 128, wrapping
WordShl7Or(w, d) ==
    [k \in 1..Len(w) |->
        (w[k] % 2) * 128 + (IF k = Len(w) THEN d ELSE w[k + 1] \div 2)]

\* the sign of the word
WordIsNeg(w) == w[1] >= 128

\* the word fits in 24 bits, unsigned: it can be used as a TLA+ number
WordIsSmall(w) == \A k \in 1..(Len(w) - 3) : w[k] = 0

WordToNat(w) == 65536 * w[Len(w) - 2] + 256 * w[Len(w) - 1] + w[Len(w)]

\* int(c) for an octet c
IntOfByte(c) == WordShl8Or(WordZero(IntBytes), c)

---------------------------------------------------------------------------
(* bytes.Reader: s is the data, i the number of octets already read.       *)

NewReader(s) == [s |-> s, i |-> 0]

Remaining(rd) == Len(rd.s) - rd.i

\* rd.Read(p) with len(p) = 1
ReadByte(rd) ==
    IF rd.i >= Len(rd.s)
    THEN [r |-> rd, b |-> 0, err |-> ErrEOF]
    ELSE [r |-> [rd EXCEPT !.i = @ + 1], b |-> rd.s[rd.i + 1], err |-> ErrNil]

\* io.ReadFull(rd, p) with len(p) = n
ReadFull(rd, n) ==
    IF n = 0 THEN [r |-> rd, b |-> <<>>, err |-> ErrNil]
    ELSE IF Remaining(rd) = 0 THEN [r |-> rd, b |-> <<>>, err |-> ErrEOF]
    ELSE IF Remaining(rd) < n
         THEN [r |-> [rd EXCEPT !.i = Len(rd.s)],
               b |-> SubSeq(rd.s, rd.i + 1, Len(rd.s)),
               err |-> ErrUnexpectedEOF]
    ELSE [r |-> [rd EXCEPT !.i = @ + n],
          b |-> SubSeq(rd.s, rd.i + 1, rd.i + n),
          err |-> ErrNil]

---------------------------------------------------------------------------
(* decodeType                                                              *)

RECURSIVE decodeTypeLoop(_, _, _)
\* as decodeTypeLoop, but a failed read ends the loop as a last octet does
decodeTypeLoopUntilError(rd, b, tag) ==
    LET tag1 == WordShl7Or(tag, b % 32)
    IN  IF b < 128
        THEN [r |-> rd, tag |-> tag1, err |-> ErrNil]
        ELSE LET n == ReadByte(rd)
             IN  IF n.err # ErrNil
                 THEN [r |-> n.r, tag |-> tag1, err |-> ErrNil]
                 ELSE decodeTypeLoop(n.r, n.b, tag1)

\* the for loop of the long form: b is dec.buf[0], tag the accumulator
decodeTypeLoop(rd, b, tag) ==
    LET tag1 == WordShl7Or(tag, b % 32)
    IN  IF b < 128
        THEN [r |-> rd, tag |-> tag1, err |-> ErrNil]
        ELSE LET n == ReadByte(rd)
             IN  IF n.err # ErrNil
                 THEN [r |-> n.r, tag |-> tag1, err |-> n.err]
                 ELSE decodeTypeLoop(n.r, n.b, tag1)

decodeType(rd) ==
    LET f == ReadByte(rd)
    IN  IF f.err # ErrNil
        THEN [r |-> f.r, class |-> 0, tag |-> WordZero(IntBytes),
              constructed |-> FALSE, err |-> f.err]
        ELSE LET class == f.b \div 64
                 constructed == (f.b \div 32) % 2 = 1
                 c == f.b % 32
             IN  IF c < 31
                 THEN [r |-> f.r, class |-> class, tag |-> IntOfByte(c),
                       constructed |-> constructed, err |-> ErrNil]
                 ELSE LET e == ReadByte(f.r)
                      IN  IF e.err # ErrNil
                          THEN [r |-> e.r, class |-> class, tag |-> WordZero(IntBytes),
                                constructed |-> constructed, err |-> e.err]
                          ELSE IF e.b % 128 = 0
                          THEN [r |-> e.r, class |-> class, tag |-> WordZero(IntBytes),
                                constructed |-> constructed, err |-> SyntaxError]
                          ELSE LET l == decodeTypeLoop(e.r, e.b, WordZero(IntBytes))
                               IN  [r |-> l.r, class |-> class, tag |-> l.tag,
                                    constructed |-> constructed, err |-> l.err]

---------------------------------------------------------------------------
(* decodeLength                                                            *)

RECURSIVE LengthOf(_, _)
\* for _, b := range dec.buf[0:width] { length = length<<8 | int(b) }
LengthOf(bs, length) ==
    IF bs = <<>> THEN length
    ELSE LengthOf(Tail(bs), WordShl8Or(length, Head(bs)))

decodeLength(rd) ==
    LET f == ReadByte(rd)
        none == WordZero(IntBytes)
    IN  IF f.err # ErrNil
        THEN [r |-> f.r, length |-> none, indefinite |-> FALSE, err |-> f.err]
        ELSE IF f.b < 128
        THEN [r |-> f.r, length |-> IntOfByte(f.b), indefinite |-> FALSE, err |-> ErrNil]
        ELSE IF f.b = 128
        THEN [r |-> f.r, length |-> none, indefinite |-> TRUE, err |-> ErrNil]
        ELSE IF f.b = 255
        THEN [r |-> f.r, length |-> none, indefinite |-> FALSE, err |-> SyntaxError]
        ELSE LET n == f.b % 128
             IN  IF n > BufLen
                 \* dec.buf[0:n] with n > cap(dec.buf): slice bounds out of range
                 THEN [r |-> f.r, length |-> none, indefinite |-> FALSE, err |-> Panic]
                 ELSE LET w == ReadFull(f.r, n)
                      IN  IF w.err # ErrNil
                          THEN [r |-> w.r, length |-> none, indefinite |-> FALSE,
                                err |-> w.err]
                          ELSE [r |-> w.r, length |-> LengthOf(w.b, none),
                                indefinite |-> FALSE, err |-> ErrNil]

---------------------------------------------------------------------------
(* decodeContent                                                           *)

RECURSIVE scanEOC(_, _)
\* the for loop of the indefinite case: b is the buffer read so far
scanEOC(rd, b) ==
    IF b[Len(b) - 1] = 0 /\ b[Len(b)] = 0
    THEN [r |-> rd, b |-> SubSeq(b, 1, Len(b) - 2), err |-> ErrNil]
    ELSE LET n == ReadByte(rd)
         IN  IF n.err # ErrNil
             THEN [r |-> n.r, b |-> b, err |-> n.err]
             ELSE scanEOC(n.r, Append(b, n.b))

decodeContent(rd, length, indefinite) ==
    IF indefinite
    THEN LET f == ReadFull(rd, 2)
         IN  IF f.err # ErrNil THEN f ELSE scanEOC(f.r, f.b)
    ELSE IF WordIsNeg(length) \/ (~WordIsSmall(length) /\ (length[1] # 0 \/ length[2] # 0))
         \* make([]byte, length): makeslice: len out of range
         THEN [r |-> rd, b |-> <<>>, err |-> Panic]
         ELSE IF WordIsSmall(length)
         THEN ReadFull(rd, WordToNat(length))
         \* more octets than any source of the model holds
         ELSE ReadFull(rd, Remaining(rd) + 1)

decodeLengthAndContent(rd) ==
    LET l == decodeLength(rd)
    IN  IF l.err # ErrNil
        THEN [r |-> l.r, b |-> <<>>, err |-> l.err]
        ELSE decodeContent(l.r, l.length, l.indefinite)

---------------------------------------------------------------------------
(* Target types (what reflect reports of the value passed to Decode).      *)
(* A type is the tuple of its kinds, outermost first: <<"slice", "bool">>  *)
(* is []bool, <<"slice", "slice", "bool">> is [][]bool, <<"slice",         *)
(* "uint8">> is []byte.                                                    *)

rawValueType == <<"raw">>

Kind(T) == Head(T)

Elem(T) == Tail(T)

\* the kinds of the fields of a struct type, <<"struct", "int", "int">>
Fields(T) == Tail(T)

IntKinds == {"int", "int8", "int16", "int32", "int64"}

\* the size in octets of an integer kind
KindBytes(k) ==
    CASE k = "int8" -> 1
      [] k = "int16" -> 2
      [] k = "int32" -> 4
      [] k = "int64" -> 8
      [] k = "int" -> IntBytes

RECURSIVE ZeroValue(_)
\* the zero value of a type: reflect.New(t).Elem()
ZeroValue(T) ==
    CASE Kind(T) = "bool" -> FALSE
      [] Kind(T) \in IntKinds -> WordZero(Int64Bytes)
      [] Kind(T) = "uint8" -> WordZero(Int64Bytes)
      [] Kind(T) = "raw" -> [Class |-> 0, Tag |-> WordZero(IntBytes), Constructed |-> FALSE, Bytes |-> <<>>]
      [] Kind(T) = "slice" -> <<>>
      [] Kind(T) = "struct" -> [k \in 1..Len(Fields(T)) |-> ZeroValue(<<Fields(T)[k]>>)]

---------------------------------------------------------------------------
(* checkTag and the decoders of the primitive kinds.                       *)

\* as checkTag, but the constructed bit is not compared for the primitives
checkTagIgnoringConstructed(class, tag, constructed, T) ==
    LET ok ==
          IF class # ClassUniversal THEN FALSE
          ELSE CASE tag = IntOfByte(TagBoolean) -> Kind(T) = "bool"
                 [] tag = IntOfByte(TagOctetString) ->
                      Kind(T) = "slice" /\ Kind(Elem(T)) = "uint8"
                 [] tag \in {IntOfByte(TagInteger), IntOfByte(TagEnumerated)} ->
                      Kind(T) \in IntKinds
                 [] tag = IntOfByte(TagSequence) -> constructed /\ Kind(T) = "slice"
                 [] OTHER -> FALSE
    IN  IF ok THEN ErrNil ELSE StructuralError

checkTag(class, tag, constructed, T) ==
    LET ok ==
          IF class # ClassUniversal THEN FALSE
          ELSE CASE tag = IntOfByte(TagBoolean) -> ~constructed /\ Kind(T) = "bool"
                 [] tag = IntOfByte(TagOctetString) ->
                      ~constructed /\ Kind(T) = "slice" /\ Kind(Elem(T)) = "uint8"
                 [] tag \in {IntOfByte(TagInteger), IntOfByte(TagEnumerated)} ->
                      ~constructed /\ Kind(T) \in IntKinds
                 [] tag = IntOfByte(TagSequence) -> constructed /\ Kind(T) = "slice"
                 [] OTHER -> FALSE
    IN  IF ok THEN ErrNil ELSE StructuralError

\* as decodeBool, but only the octet 0xFF is true
decodeBoolStrict(b, v) ==
    IF Len(b) # 1 THEN [v |-> v, err |-> SyntaxError]
    ELSE [v |-> b[1] = 255, err |-> ErrNil]

decodeBool(b, v) ==
    IF Len(b) # 1 THEN [v |-> v, err |-> SyntaxError]
    ELSE [v |-> b[1] # 0, err |-> ErrNil]

decodeByteSlice(b, v) == [v |-> b, err |-> ErrNil]

RECURSIVE Accumulate(_, _)
\* for _, b := range b { i = i<<8 + int64(b) }
Accumulate(b, i) ==
    IF b = <<>> THEN i ELSE Accumulate(Tail(b), WordShl8Or(i, Head(b)))

\* the low n octets of a 64-bit value, sign-extended to 64 bits again
Truncate(i, n) ==
    LET low == SubSeq(i, Int64Bytes - n + 1, Int64Bytes)
        fill == IF low[1] >= 128 THEN 255 ELSE 0
    IN  [k \in 1..(Int64Bytes - n) |-> fill] \o low

\* reflect.Value.OverflowInt: x does not survive truncation to the kind's size
OverflowInt(T, i) == Truncate(i, KindBytes(Kind(T))) # i

\* reflect.Value.SetInt: stores x converted to the kind
SetInt(T, i) == Truncate(i, KindBytes(Kind(T)))

decodeInteger(b, T, v) ==
    IF Len(b) = 0 THEN [v |-> v, err |-> SyntaxError]
    ELSE LET i == Accumulate(b, WordZero(Int64Bytes))
         IN  IF OverflowInt(T, i) THEN [v |-> v, err |-> StructuralError]
             ELSE [v |-> SetInt(T, i), err |-> ErrNil]

decodePrimitive(rd, T, v) ==
    LET c == decodeLengthAndContent(rd)
        unsupported == [r |-> c.r, v |-> v, err |-> StructuralError]
    IN  IF c.err # ErrNil THEN [r |-> c.r, v |-> v, err |-> c.err]
        ELSE CASE Kind(T) = "slice" ->
                    IF Kind(Elem(T)) = "uint8"
                    THEN [r |-> c.r] @@ decodeByteSlice(c.b, v)
                    ELSE unsupported
               [] Kind(T) = "bool" -> [r |-> c.r] @@ decodeBool(c.b, v)
               [] Kind(T) \in IntKinds -> [r |-> c.r] @@ decodeInteger(c.b, T, v)
               [] OTHER -> unsupported

---------------------------------------------------------------------------
(* decodeField, decodeConstructed, decodeSequenceSlice.                    *)

\* as RestoreReader, but the reader of the content is left in dec.r
KeepSubReader(saved, sub) == sub

\* the deferred func(r io.Reader) { dec.r = r }(dec.r): saved is the reader
\* at the defer statement, sub the reader in dec.r when the function returns
RestoreReader(saved, sub) == saved

\* as EndsSequence, but the End-Of-Content sentinel is passed on as an error
EndsSequenceOnlyAtEOF(e) == e = ErrEOF

\* err == EOC || err == io.EOF: the element loop ends without an error
EndsSequence(e) == e = EOC \/ e = ErrEOF

RECURSIVE decodeField(_, _, _)
RECURSIVE decodeSequenceSlice(_, _, _)
RECURSIVE elementLoop(_, _, _)

decodeConstructed(rd, T, v) ==
    IF Kind(T) = "slice" THEN decodeSequenceSlice(rd, T, v)
    ELSE [r |-> rd, v |-> v, err |-> StructuralError]

decodeField(rd, T, v) ==
    LET h == decodeType(rd)
    IN  IF h.err # ErrNil THEN [r |-> h.r, v |-> v, err |-> h.err]
        ELSE IF h.class = 0 /\ h.tag = IntOfByte(0)
        THEN LET l == ReadByte(h.r)
             IN  IF l.err # ErrNil THEN [r |-> l.r, v |-> v, err |-> l.err]
                 ELSE IF l.b # 0 THEN [r |-> l.r, v |-> v, err |-> SyntaxError]
                 ELSE [r |-> l.r, v |-> v, err |-> EOC]
        ELSE IF T = rawValueType
        THEN LET c == decodeLengthAndContent(h.r)
             IN  IF c.err # ErrNil THEN [r |-> c.r, v |-> v, err |-> c.err]
                 ELSE [r |-> c.r,
                       v |-> [Class |-> h.class, Tag |-> h.tag,
                              Constructed |-> h.constructed, Bytes |-> c.b],
                       err |-> ErrNil]
        ELSE IF checkTag(h.class, h.tag, h.constructed, T) # ErrNil
        THEN [r |-> h.r, v |-> v, err |-> StructuralError]
        ELSE IF h.constructed THEN decodeConstructed(h.r, T, v)
        ELSE decodePrimitive(h.r, T, v)

\* for ok := true; ok; { ... }: v is the slice built so far, which the loop
\* stores into the target after every element
elementLoop(rd, E, v) ==
    LET f == decodeField(rd, E, ZeroValue(E))
    IN  IF EndsSequence(f.err) THEN [r |-> f.r, v |-> v, err |-> ErrNil]
        ELSE IF f.err # ErrNil THEN [r |-> f.r, v |-> v, err |-> f.err]
        ELSE elementLoop(f.r, E, Append(v, f.v))

decodeSequenceSlice(rd, T, v) ==
    LET l == decodeLength(rd)
    IN  IF l.err # ErrNil THEN [r |-> l.r, v |-> v, err |-> l.err]
        ELSE IF ~l.indefinite
        THEN LET c == decodeContent(l.r, l.length, l.indefinite)
             IN  IF c.err # ErrNil THEN [r |-> c.r, v |-> v, err |-> c.err]
                 ELSE LET e == elementLoop(NewReader(c.b), Elem(T), <<>>)
                      IN  [r |-> RestoreReader(c.r, e.r), v |-> e.v, err |-> e.err]
        ELSE elementLoop(l.r, Elem(T), <<>>)

---------------------------------------------------------------------------
(* DecodeWithOptions: a field decoded under a tag override.  An option     *)
(* string is the tuple of its comma-separated directives, <<"tag", N>> for *)
(* tag:N and <<"implicit">>, <<"explicit">>, <<"application">>,            *)
(* <<"universal">>, <<"private">> for the keywords.                        *)

\* no override: the natural universal tag of the type is expected
NoOverride ==
    [hasTag |-> FALSE, tag |-> 0, class |-> ClassContext,
     explicit |-> FALSE, implicit |-> FALSE]

RECURSIVE parseDirectives(_, _)
parseDirectives(ds, o) ==
    IF ds = <<>> THEN o
    ELSE LET d == Head(ds)
             k == Head(d)
         IN  parseDirectives(Tail(ds),
               CASE k = "tag" -> [o EXCEPT !.hasTag = TRUE, !.tag = d[2]]
                 [] k = "implicit" -> [o EXCEPT !.implicit = TRUE]
                 [] k = "explicit" -> [o EXCEPT !.explicit = TRUE]
                 [] k = "application" -> [o EXCEPT !.class = ClassApplication]
                 [] k = "universal" -> [o EXCEPT !.class = ClassUniversal]
                 [] k = "private" -> [o EXCEPT !.class = ClassPrivate]
                 [] OTHER -> o)

\* the TagOverride an option string denotes
ParseOptions(opts) == parseDirectives(opts, NoOverride)

\* the override is explicit when it says so, and when it says neither and
\* the decoder is not implicit by default
IsExplicit(o, implicitDefault) == o.explicit \/ (~o.implicit /\ ~implicitDefault)

\* the end of a definite wrapper: the reader is the one saved before the
\* wrapper's content was read, f the result of decoding the nested TLV
endDefinite(saved, f) == [r |-> RestoreReader(saved, f.r), v |-> f.v, err |-> f.err]

\* the end of an indefinite wrapper: m is the result of decoding what
\* follows the nested TLV, which must be the End-Of-Content marker
endIndefinite(f, m) ==
    IF m.err = EOC THEN [r |-> m.r, v |-> f.v, err |-> ErrNil]
    ELSE [r |-> m.r, v |-> f.v, err |-> IF m.err = ErrNil THEN SyntaxError ELSE m.err]

expectMarker(f) ==
    IF f.err # ErrNil THEN f
    ELSE endIndefinite(f, decodeField(f.r, rawValueType, ZeroValue(rawValueType)))

\* the content of an explicit wrapper: one nested TLV, resolved against the
\* natural tag of the type; an indefinite wrapper ends at its End-Of-Content
unwrapExplicit(rd, T, v) ==
    LET l == decodeLength(rd)
    IN  IF l.err # ErrNil THEN [r |-> l.r, v |-> v, err |-> l.err]
        ELSE IF ~l.indefinite
        THEN LET c == decodeContent(l.r, l.length, l.indefinite)
             IN  IF c.err # ErrNil THEN [r |-> c.r, v |-> v, err |-> c.err]
                 ELSE endDefinite(c.r, decodeField(NewReader(c.b), T, v))
        ELSE expectMarker(decodeField(l.r, T, v))

\* T is the type of a primitive, whose encoding is never constructed
decodeFieldWithOptions(rd, T, v, o, implicitDefault) ==
    IF ~o.hasTag THEN decodeField(rd, T, v)
    ELSE LET h == decodeType(rd)
             mismatch == [r |-> h.r, v |-> v, err |-> StructuralError]
         IN  IF h.err # ErrNil THEN [r |-> h.r, v |-> v, err |-> h.err]
             ELSE IF h.class # o.class \/ h.tag # IntOfByte(o.tag) THEN mismatch
             ELSE IF IsExplicit(o, implicitDefault)
             THEN IF h.constructed THEN unwrapExplicit(h.r, T, v) ELSE mismatch
             ELSE IF h.constructed THEN mismatch
             ELSE decodePrimitive(h.r, T, v)

---------------------------------------------------------------------------
(* Bounds of the model.                                                    *)

\* operations called on one decoder
MaxCalls == 2
\* elements of a sequence
MaxElems == 2
\* booleans in a sequence nested in a sequence
MaxInner == 1
\* octets that follow the two leading octets of a header input
MaxTail == 2
\* content octets of an INTEGER or ENUMERATED input
MaxIntLen == 9

---------------------------------------------------------------------------
(* The inputs: the octets handed to bytes.NewReader.                       *)

Octets == 0..255

\* all tuples over S of length 0..n
RECURSIVE SeqsUpTo(_, _)
SeqsUpTo(S, n) ==
    IF n = 0 THEN {<<>>}
    ELSE LET shorter == SeqsUpTo(S, n - 1)
         IN  shorter \cup {Append(q, x) : q \in {p \in shorter : Len(p) = n - 1}, x \in S}

\* the tuples x, x x, x x x, ... of length 0..n, for every x of S
RunsUpTo(S, n) == {[k \in 1..m |-> x] : x \in S, m \in 0..n}

\* the concatenation of a tuple of octet strings
RECURSIVE Flatten(_)
Flatten(ss) == IF ss = <<>> THEN <<>> ELSE Head(ss) \o Flatten(Tail(ss))

Prefixes(q) == {SubSeq(q, 1, n) : n \in 0..Len(q)}

\* the TLV of a BOOLEAN, as in TestDecodeSequenceSlice
EncBool(b) == <<1, 1, IF b THEN 1 ELSE 0>>

\* the TLV of the INTEGER 0
IntegerTLV == <<2, 1, 0>>

\* the definite-length and the indefinite-length framing of a SEQUENCE
EncDefinite(content) == <<48, Len(content)>> \o content

EncIndefinite(content) == <<48, 128>> \o content \o <<0, 0>>

Forms == {"definite", "indefinite"}

EncSequence(form, content) ==
    IF form = "definite" THEN EncDefinite(content) ELSE EncIndefinite(content)

\* the content of a sequence of booleans
BoolsContent(v) == Flatten([k \in 1..Len(v) |-> EncBool(v[k])])

\* the content of a sequence of sequences of booleans, the nested
\* sequences framed in the form `inner`
NestedContent(v, inner) ==
    Flatten([k \in 1..Len(v) |-> EncSequence(inner, BoolsContent(v[k]))])

\* the values of a []bool and of a [][]bool target
BoolLists == SeqsUpTo(BOOLEAN, MaxElems)

NestedLists == SeqsUpTo(RunsUpTo(BOOLEAN, MaxInner), MaxElems)

\* contents of sequences: of booleans and an INTEGER (which no boolean
\* element matches), and of nested sequences
ElementStreams ==
    {Flatten(es) : es \in SeqsUpTo({EncBool(FALSE), EncBool(TRUE), IntegerTLV}, MaxElems)}
        \cup {NestedContent(v, f) : v \in NestedLists, f \in Forms}

\* complete contents, and contents cut short at every octet
Contents == UNION {Prefixes(c) : c \in ElementStreams}

\* a content framed with a definite length, with an indefinite length and
\* its End-Of-Content marker, and with an indefinite length and no marker
SequenceInputs ==
    {EncDefinite(c) : c \in Contents}
        \cup {EncIndefinite(c) : c \in Contents}
        \cup {<<48, 128>> \o c : c \in Contents}

\* every octet in first and in second place, followed by a few octets
HeaderInputs ==
    {p \o <<c>> \o t : p \in {<<>>, <<31>>}, c \in Octets, t \in RunsUpTo({0, 1}, MaxTail)}

\* INTEGER and ENUMERATED TLVs with 1..MaxIntLen content octets
IntContents ==
    {<<f>> \o t : f \in {0, 1, 127, 128, 255}, t \in RunsUpTo({0, 255}, MaxIntLen - 1)}

IntInputs == {<<t, Len(c)>> \o c : t \in {TagInteger, TagEnumerated}, c \in IntContents}

\* the TLV of a one-octet INTEGER
EncSmallInt(x) == <<2, 1, x>>

\* the values of the fields of records, one more than a sequence has elements
FieldValues == SeqsUpTo({6, 7}, MaxElems + 1)

IntsContent(xs) == Flatten([k \in 1..Len(xs) |-> EncSmallInt(xs[k])])

\* sequences of INTEGERs: the encodings of records, with fields missing
\* and with fields too many
PointInputs == {EncSequence(f, IntsContent(xs)) : xs \in FieldValues, f \in Forms}

\* identifier octets of every class, primitive and constructed, with the
\* tag numbers of the overrides
OverrideTags == 1..5

TagOctets == {64 * c + 32 * p + t : c \in 0..3, p \in 0..1, t \in OverrideTags}

\* a boolean under every such identifier: in place of its own (implicit),
\* and wrapped with a definite and with an indefinite length (explicit)
TaggingInputs ==
    {<<id, 1, b>> : id \in TagOctets, b \in 0..1}
        \cup {<<id, 3>> \o <<1, 1, b>> : id \in TagOctets, b \in 0..1}
        \cup {<<id, 128>> \o <<1, 1, b>> \o <<0, 0>> : id \in TagOctets, b \in 0..1}

\* the option strings of TestTagging
OptionStrings ==
    {<<>>,
     << <<"tag", 1>>, <<"implicit">> >>,
     << <<"tag", 2>>, <<"implicit">>, <<"application">> >>,
     << <<"tag", 3>>, <<"explicit">> >>,
     << <<"tag", 4>> >>,
     << <<"tag", 5>> >>}

\* a sequence of one sequence of one BOOLEAN that has no content octet: an
\* element that fails two sequences deep
NestedFailInputs == {EncSequence(f, EncSequence(g, <<1, 0>>)) : f \in Forms, g \in Forms}

\* a definite-length sequence whose content starts with the octets of an
\* End-Of-Content marker
MarkerInputs == {EncDefinite(<<0, 0>> \o BoolsContent(v)) : v \in BoolLists}

\* an indefinite-length sequence whose content starts with 0x20 0x00, the
\* identifier octet of class 0 and tag 0 with the constructed bit set
ConstructedMarkerInputs ==
    {<<48, 128, 32, 0>> \o BoolsContent(v) \o t : v \in BoolLists, t \in {<<>>, <<0, 0>>}}

\* long-form lengths of 1..BufLen octets
LengthInputs ==
    {<<128 + n, f>> \o [k \in 1..(n - 1) |-> g] :
        n \in 1..BufLen, f \in {0, 1, 127, 128, 255}, g \in {0, 255}}

Inputs ==
    {<<>>} \cup SequenceInputs \cup HeaderInputs \cup IntInputs \cup PointInputs
        \cup NestedFailInputs \cup MarkerInputs \cup ConstructedMarkerInputs
        \cup LengthInputs

---------------------------------------------------------------------------
(* The targets of Decode: a type and the value the variable holds.         *)

\* type point struct { X, Y int }
point == <<"struct", "int", "int">>

TargetTypes ==
    {<<"bool">>, <<"int8">>, <<"int16">>, <<"int32">>, <<"int64">>, rawValueType,
     <<"slice", "uint8">>, <<"slice", "bool">>, <<"slice", "slice", "bool">>, point}

\* a variable is zero, or holds what an earlier decode left in it
PriorValues(T) ==
    {ZeroValue(T)} \cup
        (CASE T = <<"slice", "bool">> -> {<<TRUE>>}
           [] T = <<"slice", "slice", "bool">> -> {<< <<TRUE>> >>}
           [] OTHER -> {})

NoRet == [class |-> 0, tag |-> WordZero(IntBytes), constructed |-> FALSE,
          length |-> WordZero(IntBytes), indefinite |-> FALSE]

---------------------------------------------------------------------------
(* The state machine.                                                      *)

\* NewDecoder(bytes.NewReader(in))
Init ==
    /\ r \in {NewReader(in) : in \in Inputs}
    /\ implicit = FALSE
    /\ op = "NewDecoder"
    /\ options = <<>>
    /\ start = 0
    /\ ttype = <<"none">>
    /\ before = FALSE
    /\ out = FALSE
    /\ err = ErrNil
    /\ ret = NoRet
    /\ calls = 0

\* a caller goes on with a decoder while input is left, until a call fails
CanCall == calls < MaxCalls /\ err = ErrNil /\ (calls = 0 \/ Remaining(r) > 0)

\* dec.Decode(&target)
Decode ==
    /\ CanCall
    /\ \E T \in TargetTypes : \E v \in PriorValues(T) :
         LET f == decodeField(r, T, v)
         IN  /\ r' = f.r
             /\ ttype' = T
             /\ before' = v
             /\ out' = f.v
             /\ err' = f.err
    /\ op' = "Decode"
    /\ start' = r.i
    /\ ret' = NoRet
    /\ calls' = calls + 1
    /\ UNCHANGED <<implicit, options>>

\* dec.decodeType(), called directly as TestDecodeType does
DecodeType ==
    /\ CanCall
    /\ LET h == decodeType(r)
       IN  /\ r' = h.r
           /\ err' = h.err
           /\ ret' = [NoRet EXCEPT !.class = h.class, !.tag = h.tag,
                                   !.constructed = h.constructed]
    /\ op' = "decodeType"
    /\ start' = r.i
    /\ calls' = calls + 1
    /\ UNCHANGED <<ttype, before, out, implicit, options>>

\* dec.decodeLength(), called directly as TestDecodeLength does
DecodeLength ==
    /\ CanCall
    /\ LET l == decodeLength(r)
       IN  /\ r' = l.r
           /\ err' = l.err
           /\ ret' = [NoRet EXCEPT !.length = l.length, !.indefinite = l.indefinite]
    /\ op' = "decodeLength"
    /\ start' = r.i
    /\ calls' = calls + 1
    /\ UNCHANGED <<ttype, before, out, implicit, options>>

Next == Decode \/ DecodeType \/ DecodeLength

Spec == Init /\ [][Next]_vars

---------------------------------------------------------------------------
(* The decoder under tag overrides.                                        *)

InitTagging ==
    /\ r \in {NewReader(in) : in \in TaggingInputs}
    /\ implicit = FALSE
    /\ op = "NewDecoder"
    /\ options = <<>>
    /\ start = 0
    /\ ttype = <<"none">>
    /\ before = FALSE
    /\ out = FALSE
    /\ err = ErrNil
    /\ ret = NoRet
    /\ calls = 0

\* dec.Implicit = true, on a new decoder
SetImplicit ==
    /\ calls = 0
    /\ ~implicit
    /\ implicit' = TRUE
    /\ UNCHANGED <<r, op, options, start, ttype, before, out, err, ret, calls>>

\* dec.DecodeWithOptions(&out, opts), out a bool
DecodeWithOptions ==
    /\ CanCall
    /\ \E opts \in OptionStrings : \E v \in BOOLEAN :
         \E f \in {decodeFieldWithOptions(r, <<"bool">>, v, ParseOptions(opts), implicit)} :
             /\ r' = f.r
             /\ options' = opts
             /\ before' = v
             /\ out' = f.v
             /\ err' = f.err
    /\ ttype' = <<"bool">>
    /\ op' = "DecodeWithOptions"
    /\ start' = r.i
    /\ ret' = NoRet
    /\ calls' = calls + 1
    /\ UNCHANGED implicit

NextTagging == SetImplicit \/ DecodeWithOptions

SpecTagging == InitTagging /\ [][NextTagging]_vars

---------------------------------------------------------------------------
(* The claims.                                                             *)

\* the state right after the first call on a new decoder, a Decode into T
FirstDecode(T) == op = "Decode" /\ calls = 1 /\ ttype = T

\* the state right after the first call on a new decoder, a Decode
FirstDecodeAny == op = "Decode" /\ calls = 1

\* a value with each of its encodings as a SEQUENCE, for the two targets
BoolListEncodings ==
    {<<v, EncSequence(f, BoolsContent(v))>> : v \in BoolLists, f \in Forms}

NestedListEncodings ==
    {<<v, EncSequence(f, NestedContent(v, g))>> : v \in NestedLists, f \in Forms, g \in Forms}

\* C1: for every list of element values (booleans, or sequences of booleans
\* in either form), Decode of its definite-length encoding and Decode of
\* its indefinite-length encoding both succeed and both produce that list,
\* the empty list included.
C1_DefiniteAndIndefiniteAgree ==
    /\ FirstDecode(<<"slice", "bool">>) =>
         \A p \in BoolListEncodings : r.s = p[2] => (err = ErrNil /\ out = p[1])
    /\ FirstDecode(<<"slice", "slice", "bool">>) =>
         \A p \in NestedListEncodings : r.s = p[2] => (err = ErrNil /\ out = p[1])

\* C1 witness: an indefinite-length sequence of two indefinite-length
\* sequences has been decoded to the value its definite-length encoding has
C1_Witness ==
    /\ FirstDecode(<<"slice", "slice", "bool">>)
    /\ r.s = EncIndefinite(NestedContent(<< <<TRUE>>, <<FALSE>> >>, "indefinite"))
    /\ err = ErrNil
    /\ out = << <<TRUE>>, <<FALSE>> >>

\* no two adjacent zero octets: the octets hold no End-Of-Content marker
NoMarker(c) == \A k \in 1..(Len(c) - 1) : ~(c[k] = 0 /\ c[k + 1] = 0)

\* C2: Decode of an indefinite-length sequence fails when the source ends
\* before an End-Of-Content marker was read (0x30 0x80 alone must fail).
C2_IndefiniteNeedsMarker ==
    (/\ FirstDecodeAny
     /\ Len(r.s) >= 2
     /\ r.s[1] = 48
     /\ r.s[2] = 128
     /\ NoMarker(SubSeq(r.s, 3, Len(r.s))))
        => err # ErrNil

ProperPrefixes(q) == {SubSeq(q, 1, n) : n \in 1..(Len(q) - 1)}

\* contents that end in the middle of an element: complete elements, then
\* an element cut after its identifier, its length or part of its content
CutBoolContents ==
    {BoolsContent(v) \o p :
        v \in {w \in BoolLists : Len(w) < MaxElems},
        p \in ProperPrefixes(EncBool(TRUE))}

CutNestedContents ==
    {NestedContent(v, "definite") \o p :
        v \in {w \in NestedLists : Len(w) < MaxElems},
        p \in ProperPrefixes(EncDefinite(EncBool(TRUE)))}

\* C3: Decode of a definite-length sequence whose framed content ends in
\* the middle of an element fails.
C3_CutElementFails ==
    /\ FirstDecode(<<"slice", "bool">>) =>
         \A c \in CutBoolContents : r.s = EncDefinite(c) => err # ErrNil
    /\ FirstDecode(<<"slice", "slice", "bool">>) =>
         \A c \in CutNestedContents : r.s = EncDefinite(c) => err # ErrNil

\* C4: a Decode that returns an error leaves the target as it was before
\* the call.
C4_FailureLeavesTarget == (op = "Decode" /\ err # ErrNil) => out = before

\* C5: Decode never returns the End-Of-Content sentinel; an End-Of-Content
\* marker as the whole input fails with SyntaxError.
C5_SentinelStaysInside ==
    /\ op = "Decode" => err # EOC
    /\ (FirstDecodeAny /\ r.s = <<0, 0>>) => err = SyntaxError

\* the value of big-endian octets as an int, when IntBytes octets hold them
BigEndian(bs) == [k \in 1..(IntBytes - Len(bs)) |-> 0] \o bs

\* C6: decodeLength of a first octet c returns (c, definite) for c < 0x80,
\* (0, indefinite) for c = 0x80, SyntaxError for c = 0xFF, and for the
\* other c the big-endian value of the next c & 0x7F octets, or an error
\* when the source does not hold them; and it never faults.
C6_LengthForms ==
    (op = "decodeLength" /\ calls = 1 /\ Len(r.s) >= 1) =>
        LET c == r.s[1]
            n == c % 128
            rest == SubSeq(r.s, 2, Len(r.s))
        IN  /\ err # Panic
            /\ c < 128 => (err = ErrNil /\ ret.length = BigEndian(<<c>>) /\ ~ret.indefinite)
            /\ c = 128 => (err = ErrNil /\ ret.length = BigEndian(<<>>) /\ ret.indefinite)
            /\ c = 255 => err = SyntaxError
            /\ (128 < c /\ c < 255 /\ Len(rest) < n) => err # ErrNil
            /\ (128 < c /\ c < 255 /\ Len(rest) >= n /\ n <= IntBytes) =>
                 (err = ErrNil /\ ret.length = BigEndian(SubSeq(rest, 1, n))
                               /\ ~ret.indefinite)

\* the extension octets of a long-form identifier: the octets after the
\* first one, up to and including the first whose bit 7 is clear
RECURSIVE Extension(_)
Extension(q) ==
    IF q = <<>> THEN <<>>
    ELSE IF Head(q) < 128 THEN <<Head(q)>>
    ELSE <<Head(q)>> \o Extension(Tail(q))

\* the low 7 bits of the octets, concatenated, as an int
RECURSIVE SevenBitValue(_, _)
SevenBitValue(q, acc) ==
    IF q = <<>> THEN acc
    ELSE SevenBitValue(Tail(q), WordShl7Or(acc, Head(q) % 128))

\* C7: decodeType of a long-form identifier returns as tag the big-endian
\* concatenation of the low 7 bits of every extension octet, whatever the
\* bits 5 and 6 of the octets are.
C7_LongFormTag ==
    (op = "decodeType" /\ calls = 1 /\ Len(r.s) >= 2 /\ r.s[1] % 32 = 31) =>
        LET ext == Extension(Tail(r.s))
        IN  (ext[Len(ext)] < 128 /\ ext[1] % 128 # 0) =>
                /\ err = ErrNil
                /\ r.i = 1 + Len(ext)
                /\ ret.tag = SevenBitValue(ext, WordZero(IntBytes))

\* the input is one INTEGER or ENUMERATED TLV with a short-form length
IsIntegerInput(in) ==
    /\ Len(in) >= 3
    /\ in[1] \in {TagInteger, TagEnumerated}
    /\ in[2] = Len(in) - 2

\* big-endian two's-complement content of up to 8 octets, as an int64
SignExtend(c) ==
    [k \in 1..(Int64Bytes - Len(c)) |-> IF c[1] >= 128 THEN 255 ELSE 0] \o c

\* an int64 is in the range of the integers of n octets
InRange(i, n) ==
    \A k \in 1..(Int64Bytes - n) :
        i[k] = (IF i[Int64Bytes - n + 1] >= 128 THEN 255 ELSE 0)

\* C8: an INTEGER or ENUMERATED of 1 to 8 content octets decodes to the
\* big-endian two's-complement value of its content (0x02 0x01 0xFF is -1
\* and fits an 8-bit target).
C8_TwosComplement ==
    (FirstDecodeAny /\ Kind(ttype) \in IntKinds /\ IsIntegerInput(r.s)
        /\ Len(r.s) - 2 <= Int64Bytes) =>
        LET i == SignExtend(SubSeq(r.s, 3, Len(r.s)))
        IN  InRange(i, KindBytes(Kind(ttype))) => (err = ErrNil /\ out = i)

\* non-negative content without the leading zero octets it does not need
RECURSIVE Shortest(_)
Shortest(c) ==
    IF Len(c) > 1 /\ c[1] = 0 /\ c[2] < 128 THEN Shortest(Tail(c)) ELSE c

\* C9: an INTEGER decoded into a target of 8, 16 or 32 bits fails with
\* StructuralError exactly when its value is outside the target's range and
\* is else stored exactly; a 64-bit target holds the exact value.  Stated
\* for content whose first octet has the top bit clear, the values that do
\* not depend on how the sign is read.
C9_NarrowingIsExact ==
    (FirstDecodeAny /\ Kind(ttype) \in IntKinds /\ IsIntegerInput(r.s) /\ r.s[3] < 128) =>
        LET c == Shortest(SubSeq(r.s, 3, Len(r.s)))
            n == KindBytes(Kind(ttype))
        IN  /\ Len(c) <= n => (err = ErrNil /\ out = SignExtend(c))
            /\ Len(c) > n => err # ErrNil
            /\ (Len(c) > n /\ n < Int64Bytes) => err = StructuralError

\* C10: Decode into a RawValue of an indefinite-length value whose content
\* is a series of complete TLVs returns that content as Bytes and leaves
\* the reader right after the value's End-Of-Content marker.
C10_RawValueContent ==
    FirstDecode(rawValueType) =>
        \A c \in ElementStreams :
            r.s = EncIndefinite(c) =>
                (err = ErrNil /\ out.Bytes = c /\ r.i = Len(r.s))

\* C11: Decode of a SEQUENCE into the record point, which has two INTEGER
\* fields, succeeds exactly when the content holds two INTEGER TLVs, and
\* then stores them in order (0x30 0x06 0x02 0x01 0x06 0x02 0x01 0x07 gives
\* (6, 7)); with fewer TLVs or with a TLV too many it fails.
C11_RecordExactness ==
    FirstDecode(point) =>
        \A xs \in FieldValues : \A f \in Forms :
            r.s = EncSequence(f, IntsContent(xs)) =>
                IF Len(xs) = Len(Fields(point))
                THEN err = ErrNil /\ out = [k \in 1..Len(xs) |-> IntOfByte(xs[k])]
                ELSE err # ErrNil

\* the state right after the first call on a new decoder, DecodeWithOptions
\* with the option string opts
FirstWithOptions(opts) == op = "DecodeWithOptions" /\ calls = 1 /\ options = opts

ConstructedPrimitives == {32 + TagBoolean, 32 + TagInteger, 32 + TagOctetString, 32 + TagEnumerated}

\* the targets the primitive of such an identifier octet decodes into
PrimitiveTargets(id) ==
    CASE id = 32 + TagBoolean -> {<<"bool">>}
      [] id = 32 + TagOctetString -> {<<"slice", "uint8">>}
      [] OTHER -> {<<"int8">>, <<"int16">>, <<"int32">>, <<"int64">>}

\* the last call was a Decode of a TLV with the constructed bit set on a
\* primitive universal tag, into the target of that primitive
DecodedConstructedPrimitive ==
    /\ op = "Decode"
    /\ start < Len(r.s)
    /\ r.s[start + 1] \in ConstructedPrimitives
    /\ ttype \in PrimitiveTargets(r.s[start + 1])

\* C13 as stated: such a Decode fails with a SyntaxError, whatever follows
\* the identifier octet, and stores nothing.
C13_ConstructedPrimitiveSyntaxError ==
    DecodedConstructedPrimitive => (err = SyntaxError /\ out = before)

\* C13, amended: such a Decode fails with a StructuralError, the tag
\* mismatch checkTag reports, whatever follows the identifier octet; it
\* stores nothing and reads nothing after the identifier octet.
C13_ConstructedPrimitiveRejected ==
    DecodedConstructedPrimitive =>
        (err = StructuralError /\ out = before /\ r.i = start + 1)

\* C13 witness: 0x21 0x01 0x01 was rejected into a bool
C13_Witness ==
    /\ FirstDecode(<<"bool">>)
    /\ r.s = <<33, 1, 1>>
    /\ DecodedConstructedPrimitive
    /\ err = StructuralError
    /\ out = before

\* the octets the source held when the last method was called
Unread == SubSeq(r.s, start + 1, Len(r.s))

\* the source ends before the identifier octet, or inside a long-form tag:
\* every octet after the first has bit 7 set
EndsInTag(s) ==
    \/ s = <<>>
    \/ /\ s[1] % 32 = 31
       /\ \A k \in 2..Len(s) : s[k] >= 128
       /\ Len(s) >= 2 => s[2] # 128

\* the source ends before the length octet, or the length octet declares
\* a long form of more octets than are left
EndsInLength(s) ==
    \/ s = <<>>
    \/ s[1] \in 129..254 /\ Len(s) - 1 < s[1] - 128

\* C14 as stated: decodeType and decodeLength fail with a SyntaxError when
\* the source is exhausted inside the header (decodeType on no input and on
\* 0x1f 0x85, decodeLength on no input and on 0x83 0x01 0x00).
C14_ExhaustionIsSyntaxError ==
    /\ (op = "decodeType" /\ EndsInTag(Unread)) => err = SyntaxError
    /\ (op = "decodeLength" /\ EndsInLength(Unread)) => err = SyntaxError

\* C14, amended: they fail, and never with a SyntaxError.  decodeType
\* returns the source's io.EOF; decodeLength returns io.EOF when no octet
\* of the declared width is left (or no length octet), and
\* io.ErrUnexpectedEOF when some but too few are, for the widths up to
\* BufLen.
C14_ExhaustionPropagates ==
    /\ (op = "decodeType" /\ EndsInTag(Unread)) => err = ErrEOF
    /\ (op = "decodeLength" /\ EndsInLength(Unread)) =>
          /\ err \notin {ErrNil, SyntaxError}
          /\ (Len(Unread) <= 1 /\ (Unread # <<>> => Unread[1] - 128 <= BufLen))
                => err = ErrEOF
          /\ (Len(Unread) > 1 /\ Unread[1] - 128 <= BufLen) => err = ErrUnexpectedEOF

\* C14 witness: decodeType on 0x1f 0x85 returned io.EOF
C14_Witness ==
    /\ op = "decodeType"
    /\ calls = 1
    /\ r.s = <<31, 133>>
    /\ EndsInTag(Unread)
    /\ err = ErrEOF

\* C15: every step leaves in dec.r the reader over the octets it held
\* before the step, at the same place or further on: a reader over the
\* content of a definite-length sequence is never left behind, whether
\* the call succeeded or failed and however deep the sequences nest.
C15_SourceRestored == [][r'.s = r.s /\ r'.i >= r.i]_vars

\* C15 witness: a Decode failed on an element two definite-length sequences
\* deep, and dec.r is the reader over the whole input, past the sequence
C15_Witness ==
    /\ FirstDecode(<<"slice", "slice", "bool">>)
    /\ r.s = EncDefinite(EncDefinite(<<1, 0>>))
    /\ r.i = Len(r.s)
    /\ err = SyntaxError

\* The extent of a TLV by the rules of BER: the offsets below count the
\* octets of s before a place, and -1 says that s ends too early.

\* the offset after the extension octets of a long-form identifier
RECURSIVE LongTagEnd(_, _)
LongTagEnd(s, j) ==
    IF j >= Len(s) THEN -1
    ELSE IF s[j + 1] < 128 THEN j + 1
    ELSE LongTagEnd(s, j + 1)

\* the offset after the identifier octets that start at offset k
IdentifierEnd(s, k) ==
    IF k >= Len(s) THEN -1
    ELSE IF s[k + 1] % 32 < 31 THEN k + 1
    ELSE LongTagEnd(s, k + 1)

\* the value of long-form length octets; Len(s) + 1 stands for every
\* value above 65535, which no source holds
LongLength(s, bs) ==
    IF \E k \in 1..(Len(bs) - 2) : bs[k] # 0 THEN Len(s) + 1
    ELSE IF Len(bs) = 1 THEN bs[1]
    ELSE 256 * bs[Len(bs) - 1] + bs[Len(bs)]

\* the length octets that start at offset j: the offset after them, the
\* length they state and whether they state the indefinite form
LengthField(s, j) ==
    IF j >= Len(s) \/ s[j + 1] = 255 \/ (s[j + 1] > 128 /\ j + 1 + (s[j + 1] - 128) > Len(s))
    THEN [end |-> -1, len |-> 0, indefinite |-> FALSE]
    ELSE IF s[j + 1] < 128 THEN [end |-> j + 1, len |-> s[j + 1], indefinite |-> FALSE]
    ELSE IF s[j + 1] = 128 THEN [end |-> j + 1, len |-> 0, indefinite |-> TRUE]
    ELSE [end |-> j + 1 + (s[j + 1] - 128),
          len |-> LongLength(s, SubSeq(s, j + 2, j + 1 + (s[j + 1] - 128))),
          indefinite |-> FALSE]

\* the offset after the first two adjacent zero octets at or after offset k
RECURSIVE FirstMarkerEnd(_, _)
FirstMarkerEnd(s, k) ==
    IF k + 2 > Len(s) THEN -1
    ELSE IF s[k + 1] = 0 /\ s[k + 2] = 0 THEN k + 2
    ELSE FirstMarkerEnd(s, k + 1)

RECURSIVE TLVEnd(_, _)
RECURSIVE ElementsEnd(_, _)

\* the offset after the TLV that starts at offset k: a definite length
\* states the extent; indefinite content is a series of TLVs up to an
\* End-Of-Content marker when the value is constructed, and runs up to the
\* first marker when it is primitive
TLVEnd(s, k) ==
    LET j == IdentifierEnd(s, k)
        l == LengthField(s, j)
    IN  IF j = -1 \/ l.end = -1 THEN -1
        ELSE IF ~l.indefinite
        THEN IF l.end + l.len <= Len(s) THEN l.end + l.len ELSE -1
        ELSE IF (s[k + 1] \div 32) % 2 = 1 THEN ElementsEnd(s, l.end)
        ELSE FirstMarkerEnd(s, l.end)

\* the offset after the End-Of-Content marker that ends the series of TLVs
\* starting at offset k
ElementsEnd(s, k) ==
    IF k + 2 <= Len(s) /\ s[k + 1] = 0 /\ s[k + 2] = 0 THEN k + 2
    ELSE LET e == TLVEnd(s, k)
         IN  IF e = -1 THEN -1 ELSE ElementsEnd(s, e)

\* C16: a Decode that succeeds has read exactly the octets of the one TLV
\* that started where it was called, the End-Of-Content marker of an
\* indefinite-length value included, and nothing after it; so the next
\* Decode starts at the next TLV of a concatenation.
C16_ConsumesOneTLV ==
    (op = "Decode" /\ err = ErrNil) => r.i = TLVEnd(r.s, start)

\* C17: a Decode of a definite-length sequence does not succeed when the
\* content starts with the octets 0x00 0x00: an End-Of-Content marker
\* inside definite-length content does not end the sequence (0x30 0x05
\* 0x00 0x00 0x01 0x01 0x01 must not decode to the empty sequence).
C17_NoMarkerInDefinite ==
    FirstDecode(<<"slice", "bool">>) =>
        \A v \in BoolLists :
            r.s = EncDefinite(<<0, 0>> \o BoolsContent(v)) => err # ErrNil

\* C18: Decode returns End-Of-Content only when the two octets it read are
\* 0x00 0x00; 0x20 0x00 is not the marker.
C18_OnlyExactMarker ==
    (op = "Decode" /\ err = EOC) => SubSeq(r.s, start + 1, r.i) = <<0, 0>>

\* the octets of a long-form length: those that follow the length octet
LengthOctets(s) == SubSeq(s, 2, 1 + (s[1] - 128))

\* the octets without their leading zero octets
RECURSIVE StripZeros(_)
StripZeros(bs) == IF bs # <<>> /\ bs[1] = 0 THEN StripZeros(Tail(bs)) ELSE bs

\* the big-endian value of the octets is in the range of a non-negative int
FitsInt(bs) ==
    LET v == StripZeros(bs)
    IN  Len(v) < IntBytes \/ (Len(v) = IntBytes /\ v[1] < 128)

\* C19: a long-form length that decodeLength returns without an error is
\* not negative and is the big-endian value of the length octets, so a
\* value outside the range of int was rejected and not wrapped.
C19_LengthInRange ==
    (op = "decodeLength" /\ calls = 1 /\ err = ErrNil
        /\ r.s # <<>> /\ r.s[1] \in 129..254) =>
        /\ ~WordIsNeg(ret.length)
        /\ FitsInt(LengthOctets(r.s))
        /\ ret.length = BigEndian(StripZeros(LengthOctets(r.s)))

\* the two's-complement content fits 64 bits: the octets before the last
\* eight only repeat the sign
FitsInt64(c) ==
    \A k \in 1..(Len(c) - Int64Bytes) :
        c[k] = (IF c[Len(c) - Int64Bytes + 1] >= 128 THEN 255 ELSE 0)

\* C20: an INTEGER or ENUMERATED of more than 8 content octets whose value
\* does not fit 64 bits fails and stores nothing (0x01 followed by eight
\* 0x00 must not decode to 0).
C20_WideIntegerRejected ==
    (FirstDecodeAny /\ Kind(ttype) \in IntKinds /\ IsIntegerInput(r.s)
        /\ Len(r.s) - 2 > Int64Bytes /\ ~FitsInt64(SubSeq(r.s, 3, Len(r.s)))) =>
        (err # ErrNil /\ out = before)

====
